---- MODULE Spec2Model ----
(***************************************************************************)
(* ElderCareCompanion: the alert rule engine (alert_system.py) and the     *)
(* three risk predictors (predictive_models.py).                           *)
(*                                                                         *)
(* A pandas DataFrame is a record [isNone, rows]; rows is a sequence of    *)
(* records, one field per column.  A Yes/No cell is one of the strings     *)
(*   "Yes" "No"      the text of the CSV files                             *)
(*   "True" "False"  a Python bool (database.py stores Boolean columns)    *)
(*   "NaN"           what Series.map leaves for an unmapped value          *)
(* and PyEq is Python's == between such a cell and a literal.  A message   *)
(* (an f-string) is the sequence of its pieces: the literal parts and the  *)
(* formatted values.                                                       *)
(***************************************************************************)
EXTENDS Integers, Sequences, FiniteSets, Bags, TLC

VARIABLES
    call,           \* the entry point of alert_system.py this run exercises
    pc,             \* "start", "done" (alerts generated), "decided"
    health_data,    \* the three arguments of generate_alerts
    safety_data,
    reminder_data,
    alerts,         \* the list the entry point returned
    decision,       \* what should_notify_caregiver returned, and for which alert
    kind,           \* the predictor class of the instance under test
    predictor,      \* the instance: [model, features, trained]
    ret,            \* what the last train / predict call did, and on what
    events,         \* the frame FallRiskPredictor.preprocess_data is given
    labelled,       \* the frame it returns
    batch,          \* the frame a process_*_data function is given, and mutates
    normal,         \* how often it was processed, and what the first pass gave
    merge_in,       \* the three frames merge_data_for_analysis is given
    merged_df,      \* the frame it returns
    store,          \* the database: the health records and the alerts table
    session,        \* st.session_state: data loaded, alert list, device filter
    absent,         \* the columns the health frame given to generate_alerts lacks
    page            \* st.session_state as pages/predictions.py keeps it

vars == <<call, pc, health_data, safety_data, reminder_data, alerts, decision,
          kind, predictor, ret, events, labelled, batch, normal,
          merge_in, merged_df, store, session, absent, page>>

ruleVars == <<call, pc, health_data, safety_data, reminder_data, alerts, decision>>
predVars == <<kind, predictor, ret>>
pipeVars == <<events, labelled, batch, normal, merge_in, merged_df, store, session,
              absent, page>>
appVars == <<store, session>>
labelVars == <<events, labelled>>
normVars == <<batch, normal>>
mergeVars == <<merge_in, merged_df>>

----------------------------------------------------------------------------
(* Bounds *)

\* rows of a batch given to one per-domain generator (all field values vary)
MaxFull == 1
\* rows, over the three domains, of the batches given to generate_alerts
MaxTotal == 3
\* rows of a frame given to a predictor's train or predict
MaxRows == 2

Devices == {"U1", "U2"}
Timestamps == {1, 2}

\* seconds of post-fall inactivity above which a fall is High priority
InactivityLimit == 300

----------------------------------------------------------------------------
(* Data frames and cells *)

None == [isNone |-> TRUE, rows |-> << >>]
DataFrame(rows) == [isNone |-> FALSE, rows |-> rows]

\* Python's cell == literal
PyEq(cell, lit) == cell = lit

RECURSIVE SeqsOfLen(_, _)
SeqsOfLen(S, n) ==
    IF n = 0 THEN {<< >>}
    ELSE {Append(s, x) : s \in SeqsOfLen(S, n - 1), x \in S}

SeqsUpTo(S, n) == UNION {SeqsOfLen(S, k) : k \in 0..n}

\* str.join(sep, parts), over sequences of pieces
RECURSIVE Join(_, _)
Join(sep, parts) ==
    IF Len(parts) = 0 THEN << >>
    ELSE IF Len(parts) = 1 THEN parts[1]
    ELSE parts[1] \o <<sep>> \o Join(sep, Tail(parts))

----------------------------------------------------------------------------
(* alert_system.generate_health_alerts *)

HealthReasons(row) ==
    (IF PyEq(row.HR_Threshold, "Yes")
        THEN << <<"Abnormal heart rate: ", ToString(row.Heart_Rate)>> >> ELSE << >>)
    \o (IF PyEq(row.BP_Threshold, "Yes")
        THEN << <<"Abnormal blood pressure: ", row.Blood_Pressure>> >> ELSE << >>)
    \o (IF PyEq(row.Glucose_Threshold, "Yes")
        THEN << <<"Abnormal glucose level: ", ToString(row.Glucose_Levels)>> >> ELSE << >>)
    \o (IF PyEq(row.SpO2_Threshold, "Yes")
        THEN << <<"Low oxygen saturation: ", ToString(row.SpO2), "%">> >> ELSE << >>)

\* mutant: the flag tested as a bool in a frame that spells it as text
HealthStatus_AsBool(row) ==
    IF PyEq(row.Caregiver_Notified, "False") THEN "Active" ELSE "Notified"

HealthStatus(row) ==
    IF PyEq(row.Caregiver_Notified, "No") THEN "Active" ELSE "Notified"

\* mutant: one reason is already High
HealthPriority_OffByOne(alert_reasons) ==
    IF Len(alert_reasons) >= 1 THEN "High" ELSE "Medium"

HealthPriority(alert_reasons) ==
    IF Len(alert_reasons) > 1 THEN "High" ELSE "Medium"

HealthAlert(row) ==
    [Device_ID  |-> row.Device_ID,
     Alert_Type |-> "Health",
     Timestamp  |-> row.Timestamp,
     Status     |-> HealthStatus(row),
     Message    |-> Join("; ", HealthReasons(row)),
     Priority   |-> HealthPriority(HealthReasons(row))]

HealthAlertRecords(rows) ==
    SelectSeq(rows, LAMBDA row : PyEq(row.Alert_Triggered, "Yes"))

RECURSIVE MapHealth(_)
MapHealth(rows) ==
    IF rows = << >> THEN << >>
    ELSE <<HealthAlert(Head(rows))>> \o MapHealth(Tail(rows))

generate_health_alerts(df) == MapHealth(HealthAlertRecords(df.rows))

----------------------------------------------------------------------------
(* alert_system.generate_safety_alerts *)

FallRecords(rows) ==
    SelectSeq(rows, LAMBDA row : PyEq(row.Fall_Detected, "True"))

FallMessage(row) ==
    <<"Fall detected in ", row.Location, " with ", row.Impact_Force_Level,
      " impact. ", ToString(row.Inactivity), " seconds of inactivity.">>

FallStatus(row) ==
    IF PyEq(row.Caregiver_Notified, "False") THEN "Active" ELSE "Notified"

\* mutant: the limit itself counts as High
FallPriority_AtLimit(impact, inactivity) ==
    IF impact = "High" \/ inactivity >= InactivityLimit THEN "High" ELSE "Medium"

FallPriority(impact, inactivity) ==
    IF impact = "High" \/ inactivity > InactivityLimit THEN "High" ELSE "Medium"

FallAlert(row) ==
    [Device_ID  |-> row.Device_ID,
     Alert_Type |-> "Fall",
     Timestamp  |-> row.Timestamp,
     Status     |-> FallStatus(row),
     Message    |-> FallMessage(row),
     Priority   |-> FallPriority(row.Impact_Force_Level, row.Inactivity)]

RECURSIVE MapFall(_)
MapFall(rows) ==
    IF rows = << >> THEN << >>
    ELSE <<FallAlert(Head(rows))>> \o MapFall(Tail(rows))

generate_safety_alerts(df) == MapFall(FallRecords(df.rows))

----------------------------------------------------------------------------
(* alert_system.generate_reminder_alerts *)

UnackRecords(rows) ==
    SelectSeq(rows, LAMBDA row : PyEq(row.Reminder_Sent, "True")
                                 /\ PyEq(row.Acknowledged, "False"))

\* mutant: Exercise reminders alert as well
ImportantReminder_Exercise(reminder_type) ==
    reminder_type \in {"Medication", "Appointment", "Exercise"}

ImportantReminder(reminder_type) == reminder_type \in {"Medication", "Appointment"}

ReminderMessage(row) ==
    <<row.Reminder_Type, " reminder scheduled for ", row.Scheduled_Time,
      " was not acknowledged.">>

ReminderPriority(reminder_type) ==
    IF reminder_type = "Medication" THEN "Medium" ELSE "Low"

ReminderAlert(row) ==
    [Device_ID  |-> row.Device_ID,
     Alert_Type |-> "Reminder",
     Timestamp  |-> row.Timestamp,
     Status     |-> "Active",
     Message    |-> ReminderMessage(row),
     Priority   |-> ReminderPriority(row.Reminder_Type)]

RECURSIVE MapReminder(_)
MapReminder(rows) ==
    IF rows = << >> THEN << >>
    ELSE (IF ImportantReminder(Head(rows).Reminder_Type)
             THEN <<ReminderAlert(Head(rows))>> ELSE << >>)
         \o MapReminder(Tail(rows))

generate_reminder_alerts(df) == MapReminder(UnackRecords(df.rows))

----------------------------------------------------------------------------
(* alert_system.generate_alerts *)

\* list.sort(key=Timestamp, reverse=True): stable, so x goes behind every
\* element already placed whose key is not smaller than its own
\* mutant: an unstable sort, x goes in front of the elements with its key
InsertDesc_Unstable(sorted, x) ==
    LET before == SelectSeq(sorted, LAMBDA a : a.Timestamp > x.Timestamp)
        after  == SelectSeq(sorted, LAMBDA a : a.Timestamp <= x.Timestamp)
    IN  before \o <<x>> \o after

InsertDesc(sorted, x) ==
    LET before == SelectSeq(sorted, LAMBDA a : a.Timestamp >= x.Timestamp)
        after  == SelectSeq(sorted, LAMBDA a : a.Timestamp < x.Timestamp)
    IN  before \o <<x>> \o after

RECURSIVE SortDesc(_, _)
SortDesc(sorted, rest) ==
    IF rest = << >> THEN sorted
    ELSE SortDesc(InsertDesc(sorted, Head(rest)), Tail(rest))

Extended(health, safety, reminder) ==
    (IF ~health.isNone THEN generate_health_alerts(health) ELSE << >>)
    \o (IF ~safety.isNone THEN generate_safety_alerts(safety) ELSE << >>)
    \o (IF ~reminder.isNone THEN generate_reminder_alerts(reminder) ELSE << >>)

generate_alerts(health, safety, reminder) ==
    SortDesc(<< >>, Extended(health, safety, reminder))

----------------------------------------------------------------------------
(* alert_system.should_notify_caregiver *)

\* str.lower() of the pieces a message is made of
Lower(piece) ==
    CASE piece = "Abnormal heart rate: "     -> "abnormal heart rate: "
      [] piece = "Abnormal blood pressure: " -> "abnormal blood pressure: "
      [] piece = "Abnormal glucose level: "  -> "abnormal glucose level: "
      [] piece = "Low oxygen saturation: "   -> "low oxygen saturation: "
      [] piece = "Fall detected in "         -> "fall detected in "
      [] piece = "Bathroom"                  -> "bathroom"
      [] piece = "Kitchen"                   -> "kitchen"
      [] piece = "High"                      -> "high"
      [] piece = "Medium"                    -> "medium"
      [] piece = "Low"                       -> "low"
      [] piece = "Medication"                -> "medication"
      [] piece = "Appointment"               -> "appointment"
      [] OTHER                               -> piece

\* needle in piece, for the needles should_notify_caregiver looks for
PieceHas(piece, needle) ==
    CASE needle = "heart rate" -> piece = "abnormal heart rate: "
      [] needle = "High"       -> piece = "High"
      [] needle = "Medium"     -> piece = "Medium"
      [] needle = "Medication" -> piece = "Medication"
      [] OTHER                 -> FALSE

In(needle, message) == \E i \in 1..Len(message) : PieceHas(message[i], needle)

LowerMessage(message) == [i \in 1..Len(message) |-> Lower(message[i])]

\* mutant: the Medication branch notifies
should_notify_caregiver_Medication(alert) ==
    IF alert.Priority = "High" THEN TRUE
    ELSE IF alert.Alert_Type = "Health" /\ In("heart rate", LowerMessage(alert.Message))
        THEN TRUE
    ELSE IF alert.Alert_Type = "Fall"
            /\ (In("High", alert.Message) \/ In("Medium", alert.Message))
        THEN TRUE
    ELSE IF alert.Alert_Type = "Reminder" /\ In("Medication", alert.Message)
        THEN TRUE
    ELSE FALSE

should_notify_caregiver(alert) ==
    IF alert.Priority = "High" THEN TRUE
    ELSE IF alert.Alert_Type = "Health" /\ In("heart rate", LowerMessage(alert.Message))
        THEN TRUE
    ELSE IF alert.Alert_Type = "Fall"
            /\ (In("High", alert.Message) \/ In("Medium", alert.Message))
        THEN TRUE
    ELSE IF alert.Alert_Type = "Reminder" /\ In("Medication", alert.Message)
        THEN FALSE
    ELSE FALSE

\* the alert dictionary after the call: the function assigns to no key
AlertAfterShouldNotify(alert) == alert


----------------------------------------------------------------------------
(* The batches the entry points are given *)

\* how a batch spells a flag: the CSV text, or the bools database.py stores
Reprs == {"text", "bool"}
YesCell(repr) == IF repr = "text" THEN "Yes" ELSE "True"
NoCell(repr)  == IF repr = "text" THEN "No" ELSE "False"
FlagCells(repr) == {YesCell(repr), NoCell(repr)}

\* cells of a frame that went through process_safety_data / process_reminder_data
MappedCells == {"True", "False", "NaN"}

HeartRateOf(d)     == IF d = "U1" THEN 180 ELSE 45
BloodPressureOf(d) == IF d = "U1" THEN "150/95" ELSE "85/50"
GlucoseOf(d)       == IF d = "U1" THEN 95 ELSE 210
SpO2Of(d)          == IF d = "U1" THEN 98 ELSE 88
LocationOf(d)      == IF d = "U1" THEN "Bathroom" ELSE "Kitchen"

HealthRow(d, t, hr, bp, gl, ox, trig, cn) ==
    [Device_ID |-> d, Timestamp |-> t,
     Heart_Rate |-> HeartRateOf(d), HR_Threshold |-> hr,
     Blood_Pressure |-> BloodPressureOf(d), BP_Threshold |-> bp,
     Glucose_Levels |-> GlucoseOf(d), Glucose_Threshold |-> gl,
     SpO2 |-> SpO2Of(d), SpO2_Threshold |-> ox,
     Alert_Triggered |-> trig, Caregiver_Notified |-> cn]

SafetyRow(d, t, fall, impact, inactivity, cn) ==
    [Device_ID |-> d, Timestamp |-> t, Fall_Detected |-> fall,
     Impact_Force_Level |-> impact, Inactivity |-> inactivity,
     Location |-> LocationOf(d), Caregiver_Notified |-> cn]

ReminderRow(d, t, type, sent, ack) ==
    [Device_ID |-> d, Timestamp |-> t, Reminder_Type |-> type,
     Scheduled_Time |-> "08:00:00", Reminder_Sent |-> sent, Acknowledged |-> ack]

ImpactLevels == {"Low", "Medium", "High"}
Inactivities == {45, InactivityLimit, InactivityLimit + 1}
ReminderTypes == {"Medication", "Appointment", "Exercise", "Hydration"}

HealthFull(repr) ==
    {HealthRow(d, 1, hr, bp, gl, ox, trig, cn) :
        d \in Devices, hr \in FlagCells(repr), bp \in FlagCells(repr),
        gl \in FlagCells(repr), ox \in FlagCells(repr),
        trig \in FlagCells(repr), cn \in FlagCells(repr)}

SafetyFull ==
    {SafetyRow(d, 1, fall, impact, inactivity, cn) :
        d \in Devices, fall \in MappedCells, impact \in ImpactLevels,
        inactivity \in Inactivities, cn \in MappedCells}

ReminderFull ==
    {ReminderRow(d, 1, type, sent, ack) :
        d \in Devices, type \in ReminderTypes,
        sent \in MappedCells, ack \in MappedCells}

HealthLite(repr) ==
    {HealthRow(d, t, YesCell(repr), NoCell(repr), NoCell(repr), NoCell(repr),
               trig, NoCell(repr)) :
        d \in Devices, t \in Timestamps, trig \in FlagCells(repr)}

SafetyLite ==
    {SafetyRow(d, t, fall, "Low", 45, "False") :
        d \in Devices, t \in Timestamps, fall \in {"True", "False"}}

ReminderLite ==
    {ReminderRow(d, t, "Medication", "True", ack) :
        d \in Devices, t \in Timestamps, ack \in {"True", "False"}}

\* an argument of generate_alerts with at most n rows: None, or a frame
Frames(Rows, n) == {None} \cup {DataFrame(rows) : rows \in SeqsUpTo(Rows, n)}

NoDecision == [made |-> FALSE, index |-> 0, value |-> FALSE, before |-> << >>]


\* a predictor's argument that is None
NoFrame == [isNone |-> TRUE, cols |-> {}, rows |-> << >>]

NoFeatures == [isNone |-> TRUE, names |-> << >>]
FeatureList(names) == [isNone |-> FALSE, names |-> names]

\* __init__
\* feature_names_in_ is the column list the fitted model remembers; only the
\* fall predictor reads it back
FreshPredictor ==
    [model |-> "None", features |-> NoFeatures, trained |-> FALSE,
     feature_names_in_ |-> << >>]

NoResult == [keys |-> {}, feature_count |-> 0]

\* X as handed to predict_proba: its columns in order, and the ones that were
\* filled with zero
NoMatrix == [columns |-> << >>, zeros |-> {}]

NoRet ==
    [op |-> "none", outcome |-> "none", input |-> NoFrame, after |-> NoFrame,
     path |-> "none", result |-> NoResult, rows |-> << >>, X |-> NoMatrix]

PredictorsIdle ==
    /\ kind = "none"
    /\ predictor = FreshPredictor
    /\ ret = NoRet

NotLabelled == [done |-> FALSE, isNone |-> TRUE, order |-> << >>, Next_Day_Fall |-> << >>]

\* nothing of the data pipeline is in progress
NoBatch == [domain |-> "none", cols |-> {}, rows |-> << >>]
NotNormalized == [passes |-> 0, outcome |-> "none", first |-> NoBatch]

NothingToMerge == [health_df |-> << >>, safety_df |-> << >>, reminder_df |-> << >>]
NotMerged == [done |-> FALSE, rows |-> EmptyBag]

LabelsIdle == events = << >> /\ labelled = NotLabelled
NormalizerIdle == batch = NoBatch /\ normal = NotNormalized
MergerIdle == merge_in = NothingToMerge /\ merged_df = NotMerged

\* app.py lines 18-27: the session before any data is loaded
\* the predictions page: the datasets of the session (numbered by the load
\* that assigned them), the three predictor instances (numbered by the
\* 'Train Predictive Models' click that made them) and the three prediction
\* tables, each with the instance and the dataset it was computed from
Domains == {"health", "fall", "reminder"}
NoModel == [present |-> FALSE, instance |-> 0, trained |-> FALSE]
NoPredictions == [present |-> FALSE, instance |-> 0, data |-> 0]
NoPage ==
    [data |-> 0, trainings |-> 0,
     models |-> [d \in Domains |-> NoModel],
     predictions |-> [d \in Domains |-> NoPredictions]]

\* what the last user action did: the button, whether its store call
\* succeeded, the position selected, and the alerts notify_caregiver was
\* called with
NoAction == [action |-> "none", success |-> TRUE, idx |-> 0, notified |-> << >>]

\* st.session_state: loaded is "health_data is not None"; last_update counts
\* the refreshes that set it (0 is None)
NoSession ==
    [loaded |-> FALSE, alerts |-> << >>, selected_device |-> "All",
     last_update |-> 0, last |-> NoAction]
EmptyStore == [health |-> << >>, safety |-> << >>, alerts |-> << >>]
AppIdle == store = EmptyStore /\ session = NoSession

DataIdle ==
    /\ LabelsIdle
    /\ NormalizerIdle
    /\ MergerIdle
    /\ AppIdle

PipeIdle ==
    /\ DataIdle
    /\ absent = {}
    /\ page = NoPage

Init ==
    /\ pc = "start"
    /\ alerts = << >>
    /\ decision = NoDecision
    /\ PredictorsIdle
    /\ PipeIdle
    /\ \/ /\ call = "health"
          /\ \E repr \in Reprs : \E rows \in SeqsUpTo(HealthFull(repr), MaxFull) :
                health_data = DataFrame(rows)
          /\ safety_data = None
          /\ reminder_data = None
       \/ /\ call = "safety"
          /\ health_data = None
          /\ \E rows \in SeqsUpTo(SafetyFull, MaxFull) : safety_data = DataFrame(rows)
          /\ reminder_data = None
       \/ /\ call = "reminder"
          /\ health_data = None
          /\ safety_data = None
          /\ \E rows \in SeqsUpTo(ReminderFull, MaxFull) : reminder_data = DataFrame(rows)
       \/ /\ call = "all"
          /\ \E repr \in Reprs : \E h \in Frames(HealthLite(repr), MaxTotal) :
             \E s \in Frames(SafetyLite, MaxTotal - Len(h.rows)) :
             \E r \in Frames(ReminderLite, MaxTotal - Len(h.rows) - Len(s.rows)) :
                /\ health_data = h
                /\ safety_data = s
                /\ reminder_data = r

CallGenerateHealthAlerts ==
    /\ call = "health" /\ pc = "start"
    /\ alerts' = generate_health_alerts(health_data)
    /\ pc' = "done"
    /\ UNCHANGED <<call, health_data, safety_data, reminder_data, decision, predVars, pipeVars>>

CallGenerateSafetyAlerts ==
    /\ call = "safety" /\ pc = "start"
    /\ alerts' = generate_safety_alerts(safety_data)
    /\ pc' = "done"
    /\ UNCHANGED <<call, health_data, safety_data, reminder_data, decision, predVars, pipeVars>>

CallGenerateReminderAlerts ==
    /\ call = "reminder" /\ pc = "start"
    /\ alerts' = generate_reminder_alerts(reminder_data)
    /\ pc' = "done"
    /\ UNCHANGED <<call, health_data, safety_data, reminder_data, decision, predVars, pipeVars>>

CallGenerateAlerts ==
    /\ call = "all" /\ pc = "start"
    /\ alerts' = generate_alerts(health_data, safety_data, reminder_data)
    /\ pc' = "done"
    /\ UNCHANGED <<call, health_data, safety_data, reminder_data, decision, predVars, pipeVars>>

CallShouldNotify ==
    /\ pc = "done"
    /\ \E i \in 1..Len(alerts) :
        /\ decision' = [made |-> TRUE, index |-> i,
                        value |-> should_notify_caregiver(alerts[i]),
                        before |-> alerts]
        /\ alerts' = [alerts EXCEPT ![i] = AlertAfterShouldNotify(alerts[i])]
    /\ pc' = "decided"
    /\ UNCHANGED <<call, health_data, safety_data, reminder_data, predVars, pipeVars>>

Next ==
    \/ CallGenerateHealthAlerts
    \/ CallGenerateSafetyAlerts
    \/ CallGenerateReminderAlerts
    \/ CallGenerateAlerts
    \/ CallShouldNotify

Spec == Init /\ [][Next]_vars


----------------------------------------------------------------------------
(* predictive_models: the frames a predictor is given *)

\* A frame here is [isNone, cols, rows]: the columns it has, and its rows as
\* [Device_ID, Sent].  A device's rows share one location and one reminder type.
ReminderTypeOf(d) == IF d = "U1" THEN "Medication" ELSE "Exercise"

HealthFeatureList ==
    <<"Heart Rate", "Systolic", "Diastolic", "Glucose Levels", "SpO2",
      "Movement Activity", "Fall Detected (Yes/No)",
      "Reminder Sent (Yes/No)", "Acknowledged (Yes/No)">>

Range(f) == {f[i] : i \in DOMAIN f}

MergedCols == Range(HealthFeatureList) \cup {"Device-ID/User-ID", "Has Any Alert"}
SafetyCols ==
    {"Device-ID/User-ID", "Timestamp", "Movement Activity",
     "Fall Detected (Yes/No)", "Location"}
ReminderCols ==
    {"Device-ID/User-ID", "Timestamp", "Reminder Type", "Scheduled Time",
     "Reminder Sent (Yes/No)", "Acknowledged (Yes/No)"}

\* the columns of the frames tried: all of them, or all but one
ColFamilies(k) ==
    CASE k = "health" ->
            {MergedCols, MergedCols \ {"Has Any Alert"},
             MergedCols \ {"Movement Activity"},
             {"Device-ID/User-ID", "Has Any Alert"}}
      [] k = "fall" ->
            {SafetyCols, SafetyCols \ {"Timestamp"}, SafetyCols \ {"Location"}}
      [] k = "reminder" ->
            {ReminderCols, ReminderCols \ {"Scheduled Time"},
             ReminderCols \ {"Reminder Sent (Yes/No)"}}

Activities == {"Sitting", "Walking"}

PredictorRows(k) ==
    [Device_ID : Devices, Sent : IF k = "reminder" THEN BOOLEAN ELSE {TRUE},
     Movement_Activity : IF k = "fall" THEN Activities ELSE {"Sitting"}]

PredictorFrames(k) ==
    {[isNone |-> FALSE, cols |-> c, rows |-> r] :
        c \in ColFamilies(k), r \in SeqsUpTo(PredictorRows(k), MaxRows)}

\* class probabilities, in tenths
ScoreTenths == {0, 3, 5, 6, 7, 10}

----------------------------------------------------------------------------
(* predictive_models: the predictor instances *)

\* the dictionaries train returns
AccuracyResult(feature_count) ==
    [keys |-> {"accuracy", "model_type", "feature_count"},
     feature_count |-> feature_count]
ErrorResult(feature_count) ==
    [keys |-> {"error", "model_type", "feature_count"},
     feature_count |-> feature_count]
ErrorOnly == [keys |-> {"error"}, feature_count |-> 0]

\* what a call did: the instance after it, whether it returned or raised,
\* and the dictionary (train) or the rows (predict) it returned
Returned(self, result) ==
    [self |-> self, outcome |-> "returned", result |-> result, rows |-> << >>]
ReturnedRows(self, rows) ==
    [self |-> self, outcome |-> "returned", result |-> NoResult, rows |-> rows]
Raised(self) ==
    [self |-> self, outcome |-> "raised", result |-> NoResult, rows |-> << >>]

\* train_test_split(X, y, test_size=0.25) raises when the train part is empty
SplitRaises(n) == n < 2

\* the body of a try block when model.fit succeeded
FitSucceeded(self) == [self EXCEPT !.model = "fitted", !.trained = TRUE]

\* mutant: a failed fit marks the instance untrained again
ExceptBranch_Resets(self) == [self EXCEPT !.trained = FALSE]

\* the except branch of train: it assigns to no attribute
ExceptBranch(self) == self

LenOrZero(features) == IF features.isNone THEN 0 ELSE Len(features.names)

\* the caller's frame after train: preprocess_data assigns its first new
\* columns to the frame it was given, before anything makes a copy
InputAfterTrain(k, data) ==
    IF data.isNone THEN data
    ELSE CASE k = "health" ->
                IF "Has Any Alert" \in data.cols
                    THEN [data EXCEPT !.cols = @ \cup {"Risk"}] ELSE data
           [] k = "fall" ->
                IF Len(data.rows) > 0 /\ "Timestamp" \in data.cols
                    THEN [data EXCEPT !.cols = @ \cup {"Hour", "DayOfWeek"}]
                    ELSE data
           [] k = "reminder" ->
                IF Len(data.rows) = 0 \/ "Scheduled Time" \notin data.cols
                    THEN data
                ELSE IF "Timestamp" \notin data.cols
                    THEN [data EXCEPT !.cols = @ \cup {"Hour"}]
                ELSE [data EXCEPT !.cols = @ \cup {"Hour", "DayOfWeek"}]

(* HealthRiskPredictor *)

Health_preprocess_data(self, merged_data) ==
    IF merged_data.isNone THEN Raised(self)
    ELSE LET present == SelectSeq(HealthFeatureList,
                                  LAMBDA f : f \in merged_data.cols)
             self1 == [self EXCEPT !.features = FeatureList(present)]
         IN  IF "Has Any Alert" \notin merged_data.cols THEN Raised(self1)
             ELSE Returned([self1 EXCEPT !.model = "unfitted"], NoResult)

Health_train(self, merged_data, fitRaises) ==
    LET pre == Health_preprocess_data(self, merged_data)
    IN  IF pre.outcome = "raised" THEN pre
        ELSE IF \/ SplitRaises(Len(merged_data.rows))
                \/ Len(pre.self.features.names) = 0
                \/ fitRaises
            THEN Returned(ExceptBranch(pre.self),
                          ErrorResult(LenOrZero(pre.self.features)))
        ELSE Returned(FitSucceeded(pre.self),
                      AccuracyResult(Len(pre.self.features.names)))

(* FallRiskPredictor *)

FallFeatureList == <<"Hour", "DayOfWeek", "Movement Activity", "Location">>

Fall_preprocess_data(self, data) ==
    IF data.isNone \/ Len(data.rows) = 0
        THEN [self |-> self, outcome |-> "returned", isNone |-> TRUE]
    ELSE IF \/ "Timestamp" \notin data.cols
            \/ "Device-ID/User-ID" \notin data.cols
        THEN [self |-> self, outcome |-> "raised", isNone |-> FALSE]
    ELSE [self |-> [self EXCEPT !.features = FeatureList(FallFeatureList)],
          outcome |-> "returned", isNone |-> FALSE]

\* columns of pd.get_dummies(data[features], drop_first=True): the numeric
\* columns, then for each text column one column per category present, in
\* sorted order, without the first
FallDummies(rows) ==
    <<"Hour", "DayOfWeek">>
    \o (IF Cardinality({rows[i].Movement_Activity : i \in 1..Len(rows)}) > 1
           THEN <<"Movement Activity_Walking">> ELSE << >>)
    \o (IF Cardinality({LocationOf(rows[i].Device_ID) : i \in 1..Len(rows)}) > 1
           THEN <<"Location_Kitchen">> ELSE << >>)

Fall_train(self, data, fitRaises) ==
    LET pre == Fall_preprocess_data(self, data)
    IN  IF pre.outcome = "raised" THEN Raised(pre.self)
        ELSE IF pre.isNone THEN Returned(pre.self, ErrorOnly)
        ELSE IF \/ "Movement Activity" \notin data.cols
                \/ "Location" \notin data.cols
            THEN Raised(pre.self)
        ELSE IF SplitRaises(Len(data.rows))
            THEN Returned(ExceptBranch(pre.self), ErrorResult(0))
        ELSE IF fitRaises
            THEN Returned(ExceptBranch([pre.self EXCEPT
                                           !.model = "unfitted",
                                           !.feature_names_in_ = << >>]),
                          ErrorResult(0))
        ELSE Returned([FitSucceeded(pre.self) EXCEPT
                          !.feature_names_in_ = FallDummies(data.rows)],
                      AccuracyResult(Len(FallDummies(data.rows))))

(* ReminderEffectivenessPredictor *)

TypeColumns == <<"Medication", "Appointment", "Exercise", "Hydration">>

ReminderFeatures(rows) ==
    <<"Hour", "DayOfWeek">>
    \o SelectSeq(TypeColumns,
                 LAMBDA t : \E i \in 1..Len(rows) : ReminderTypeOf(rows[i].Device_ID) = t)

Reminder_preprocess_data(self, data) ==
    IF data.isNone \/ Len(data.rows) = 0
        THEN [self |-> self, outcome |-> "returned", isNone |-> TRUE]
    ELSE IF {"Scheduled Time", "Timestamp", "Reminder Type",
             "Acknowledged (Yes/No)"} \ data.cols # {}
        THEN [self |-> self, outcome |-> "raised", isNone |-> FALSE]
    ELSE [self |-> [self EXCEPT !.features =
                        FeatureList(ReminderFeatures(data.rows))],
          outcome |-> "returned", isNone |-> FALSE]

Reminder_train(self, data, fitRaises) ==
    LET pre == Reminder_preprocess_data(self, data)
        sent == SelectSeq(data.rows, LAMBDA row : row.Sent)
    IN  IF pre.outcome = "raised" THEN Raised(pre.self)
        ELSE IF pre.isNone THEN Returned(pre.self, ErrorOnly)
        ELSE IF "Reminder Sent (Yes/No)" \notin data.cols
            THEN Raised(pre.self)
        ELSE IF Len(sent) = 0 THEN Returned(pre.self, ErrorOnly)
        ELSE IF SplitRaises(Len(sent))
            THEN Returned(ExceptBranch(pre.self),
                          ErrorResult(LenOrZero(pre.self.features)))
        ELSE IF fitRaises
            THEN Returned(ExceptBranch([pre.self EXCEPT !.model = "unfitted"]),
                          ErrorResult(LenOrZero(pre.self.features)))
        ELSE Returned(FitSucceeded(pre.self),
                      AccuracyResult(Len(pre.self.features.names)))

(* the three predict methods *)

\* pd.cut(score, bins=[0, low, high, 1.0], labels=['Low', 'Medium', 'High']):
\* the intervals are open on the left, so a score of 0 falls in none
Cut(score, low, high) ==
    IF score > 0 /\ score <= low THEN "Low"
    ELSE IF score > low /\ score <= high THEN "Medium"
    ELSE IF score > high /\ score <= 10 THEN "High"
    ELSE "NaN"

LowEdge == 3
HighEdge(k) == IF k = "fall" THEN 6 ELSE 7

\* mutant: the sentinel level is left unset
Sentinel_NoLevel(new_data) ==
    [i \in 1..Len(new_data.rows) |->
        [Device_ID |-> new_data.rows[i].Device_ID, Score |-> 0, Level |-> "NaN"]]

\* result_df = new_data.copy(); score 0 and level 'Low' on every row
Sentinel(new_data) ==
    [i \in 1..Len(new_data.rows) |->
        [Device_ID |-> new_data.rows[i].Device_ID, Score |-> 0, Level |-> "Low"]]

\* the one-row frame made up for an empty input
Placeholder == <<[Device_ID |-> "USER001", Score |-> 0, Level |-> "Low"]>>

\* DataFrame.empty: no rows, or no columns
Empty(new_data) == Len(new_data.rows) = 0 \/ new_data.cols = {}

Untrained(self) == ~self.trained \/ self.model = "None"

\* columns the try block of predict reads before the model is asked
PredictNeeds(k) ==
    CASE k = "health"   -> {}
      [] k = "fall"     -> {"Timestamp", "Movement Activity", "Location"}
      [] k = "reminder" -> {"Scheduled Time", "Timestamp", "Reminder Type"}

\* the try block raises: a column is missing, the model is not fitted, there
\* is nothing to predict on, or predict_proba fails
TryRaises(k, self, new_data, probaRaises) ==
    \/ PredictNeeds(k) \ new_data.cols # {}
    \/ self.model # "fitted"
    \/ Len(new_data.rows) = 0
    \/ probaRaises

Scored(k, new_data, scores) ==
    [i \in 1..Len(new_data.rows) |->
        [Device_ID |-> new_data.rows[i].Device_ID,
         Score |-> scores[i],
         Level |-> Cut(scores[i], LowEdge, HighEdge(k))]]

\* mutant: the batch's own dummy columns go to the model as they are
AlignColumns_AsIs(columns, names) == [columns |-> columns, zeros |-> {}]

\* missing_cols are added as zero columns, then X = X[feature_names_in_]
\* keeps the trained names, in the trained order, and nothing else
AlignColumns(columns, names) ==
    LET missing_cols == Range(names) \ Range(columns)
        present      == Range(columns) \cup missing_cols
    IN  [columns |-> SelectSeq(names, LAMBDA col : col \in present),
         zeros   |-> missing_cols]

\* which return statement of predict is reached
PredictPath(k, self, new_data, probaRaises) ==
    IF new_data.isNone THEN "none"
    ELSE IF Untrained(self) THEN "untrained"
    ELSE IF TryRaises(k, self, new_data, probaRaises) THEN "except"
    ELSE "scored"

\* the matrix predict_proba is called with; only the fall predictor aligns
\* the batch to the trained columns
MatrixFor(k, self, new_data, probaRaises) ==
    IF k = "fall" /\ PredictPath(k, self, new_data, probaRaises) = "scored"
        THEN AlignColumns(FallDummies(new_data.rows), self.feature_names_in_)
        ELSE NoMatrix

\* mutant: the score columns are written into the caller's frame
InputAfterPredict_InPlace(new_data) ==
    [new_data EXCEPT !.cols = @ \cup {"Score", "Level"}]

\* the caller's frame after predict: every branch works on new_data.copy()
InputAfterPredict(new_data) == new_data

predict(k, self, new_data, scores, probaRaises) ==
    IF new_data.isNone THEN Raised(self)
    ELSE IF Untrained(self)
        THEN ReturnedRows(self, IF ~Empty(new_data) THEN Sentinel(new_data)
                                ELSE Placeholder)
    ELSE IF TryRaises(k, self, new_data, probaRaises)
        THEN ReturnedRows(self, Sentinel(new_data))
    ELSE ReturnedRows(self, Scored(k, new_data, scores))

----------------------------------------------------------------------------
(* One predictor instance, from its construction, under any calls *)

RulesIdle ==
    /\ call = "none"
    /\ pc = "start"
    /\ health_data = None
    /\ safety_data = None
    /\ reminder_data = None
    /\ alerts = << >>
    /\ decision = NoDecision

InitPredictors ==
    /\ RulesIdle
    /\ PipeIdle
    /\ kind \in {"health", "fall", "reminder"}
    /\ predictor = FreshPredictor
    /\ ret = NoRet

AfterTrain(df, r) ==
    /\ predictor' = r.self
    /\ ret' = [op |-> "train", outcome |-> r.outcome, input |-> df,
               after |-> InputAfterTrain(kind, df), path |-> "none",
               result |-> r.result, rows |-> << >>, X |-> NoMatrix]
    /\ UNCHANGED <<kind, ruleVars, pipeVars>>

\* train is given a frame, or None where the session has no data yet
TrainHealth ==
    /\ kind = "health" /\ ret.op = "none"
    /\ \E df \in PredictorFrames("health") \cup {NoFrame}, fitRaises \in BOOLEAN :
          AfterTrain(df, Health_train(predictor, df, fitRaises))

TrainFall ==
    /\ kind = "fall" /\ ret.op = "none"
    /\ \E df \in PredictorFrames("fall") \cup {NoFrame}, fitRaises \in BOOLEAN :
          AfterTrain(df, Fall_train(predictor, df, fitRaises))

TrainReminder ==
    /\ kind = "reminder" /\ ret.op = "none"
    /\ \E df \in PredictorFrames("reminder") \cup {NoFrame}, fitRaises \in BOOLEAN :
          AfterTrain(df, Reminder_train(predictor, df, fitRaises))

\* the probabilities predict_proba gives, where the call gets that far
ScoresFor(k, self, df) ==
    IF Untrained(self) \/ TryRaises(k, self, df, FALSE) THEN {<< >>}
    ELSE [1..Len(df.rows) -> ScoreTenths]

Predict ==
    /\ ret.op = "none"
    /\ \E df \in PredictorFrames(kind), probaRaises \in BOOLEAN :
       \E scores \in ScoresFor(kind, predictor, df) :
          LET r == predict(kind, predictor, df, scores, probaRaises)
          IN  /\ predictor' = r.self
              /\ ret' = [op |-> "predict", outcome |-> r.outcome, input |-> df,
                         after |-> InputAfterPredict(df),
                         path |-> PredictPath(kind, predictor, df, probaRaises),
                         result |-> NoResult, rows |-> r.rows,
                         X |-> MatrixFor(kind, predictor, df, probaRaises)]
    /\ UNCHANGED <<kind, ruleVars, pipeVars>>

\* the caller takes what the call returned (or the exception) and goes on
ReturnToCaller ==
    /\ ret.op # "none"
    /\ ret' = NoRet
    /\ UNCHANGED <<kind, predictor, ruleVars, pipeVars>>

NextPredictors ==
    \/ TrainHealth
    \/ TrainFall
    \/ TrainReminder
    \/ Predict
    \/ ReturnToCaller

SpecPredictors == InitPredictors /\ [][NextPredictors]_vars

----------------------------------------------------------------------------
(* Properties of the rule engine *)

\* what a flag cell says, however the batch spells it
FlagTrue(cell)  == cell \in {"Yes", "True"}
FlagFalse(cell) == cell \in {"No", "False"}

\* sub occurs in message as consecutive pieces
HasPieces(message, sub) ==
    \E i \in 1..(Len(message) - Len(sub) + 1) :
        SubSeq(message, i, i + Len(sub) - 1) = sub

Count(S) == Cardinality(S)

SetFlags(row) ==
    {f \in {"hr", "bp", "gl", "ox"} :
        \/ f = "hr" /\ FlagTrue(row.HR_Threshold)
        \/ f = "bp" /\ FlagTrue(row.BP_Threshold)
        \/ f = "gl" /\ FlagTrue(row.Glucose_Threshold)
        \/ f = "ox" /\ FlagTrue(row.SpO2_Threshold)}

ReasonOf(f, row) ==
    CASE f = "hr" -> <<"Abnormal heart rate: ", ToString(row.Heart_Rate)>>
      [] f = "bp" -> <<"Abnormal blood pressure: ", row.Blood_Pressure>>
      [] f = "gl" -> <<"Abnormal glucose level: ", ToString(row.Glucose_Levels)>>
      [] f = "ox" -> <<"Low oxygen saturation: ", ToString(row.SpO2), "%">>

AllReasons ==
    {<<"Abnormal heart rate: ">>, <<"Abnormal blood pressure: ">>,
     <<"Abnormal glucose level: ">>, <<"Low oxygen saturation: ">>}

TriggeredRows == SelectSeq(health_data.rows, LAMBDA row : FlagTrue(row.Alert_Triggered))
FallRows      == SelectSeq(safety_data.rows, LAMBDA row : FlagTrue(row.Fall_Detected))
MissedRows ==
    SelectSeq(reminder_data.rows,
              LAMBDA row : /\ FlagTrue(row.Reminder_Sent)
                           /\ FlagFalse(row.Acknowledged)
                           /\ row.Reminder_Type \in {"Medication", "Appointment"})

\* C1: every alert generate_health_alerts makes for an alert-triggered health
\* event is Medium when exactly one of the event's four threshold flags is set
\* and High when two or more are, and its message holds, for each set flag and
\* for no other, the reason with the event's own reading.
C1_HealthPriority ==
    (call = "health" /\ pc = "done") =>
        \A k \in 1..Len(alerts) :
            /\ k <= Len(TriggeredRows)
            /\ LET row == TriggeredRows[k]
                   n   == Count(SetFlags(row))
               IN  /\ alerts[k].Alert_Type = "Health"
                   /\ n = 1 => alerts[k].Priority = "Medium"
                   /\ n >= 2 => alerts[k].Priority = "High"
                   /\ \A f \in SetFlags(row) :
                          HasPieces(alerts[k].Message, ReasonOf(f, row))
                   /\ Count({r \in AllReasons : HasPieces(alerts[k].Message, r)}) = n

C1_Witness ==
    /\ call = "health" /\ pc = "done"
    /\ Len(alerts) = 1
    /\ alerts[1].Priority = "High"
    /\ alerts[1].Message = <<"Abnormal heart rate: ", "180", "; ",
                             "Abnormal blood pressure: ", "150/95">>

\* C2: every alert generate_safety_alerts makes for a fall is High exactly when
\* the impact is "High" or the inactivity exceeds 300 seconds (300 itself is
\* Medium), Medium otherwise, and its message holds the event's location,
\* impact level and inactivity seconds.
C2_FallPriority ==
    (call = "safety" /\ pc = "done") =>
        /\ Len(alerts) = Len(FallRows)
        /\ \A k \in 1..Len(alerts) :
            LET row == FallRows[k]
                high == row.Impact_Force_Level = "High" \/ row.Inactivity > 300
            IN  /\ alerts[k].Alert_Type = "Fall"
                /\ alerts[k].Priority = (IF high THEN "High" ELSE "Medium")
                /\ HasPieces(alerts[k].Message, <<"Fall detected in ", row.Location>>)
                /\ HasPieces(alerts[k].Message,
                             <<" with ", row.Impact_Force_Level, " impact. ">>)
                /\ HasPieces(alerts[k].Message,
                             <<ToString(row.Inactivity), " seconds of inactivity.">>)

C2_Witness ==
    /\ call = "safety" /\ pc = "done"
    /\ Len(alerts) = 1
    /\ safety_data.rows[1].Inactivity = 300
    /\ safety_data.rows[1].Impact_Force_Level = "Medium"
    /\ alerts[1].Priority = "Medium"
    /\ alerts[1].Message = <<"Fall detected in ", "Kitchen", " with ", "Medium",
                             " impact. ", "300", " seconds of inactivity.">>

\* C3: generate_reminder_alerts makes an alert for a reminder exactly when it
\* was sent, was not acknowledged and is a Medication or Appointment reminder
\* (never for Exercise or Hydration); the alert is Medium for Medication, Low
\* for Appointment, and always Active.
C3_ReminderAlerts ==
    (call = "reminder" /\ pc = "done") =>
        /\ Len(alerts) = Len(MissedRows)
        /\ \A k \in 1..Len(alerts) :
            LET row == MissedRows[k]
            IN  /\ alerts[k].Alert_Type = "Reminder"
                /\ alerts[k].Device_ID = row.Device_ID
                /\ alerts[k].Timestamp = row.Timestamp
                /\ alerts[k].Message[1] = row.Reminder_Type
                /\ alerts[k].Priority =
                      (IF row.Reminder_Type = "Medication" THEN "Medium" ELSE "Low")
                /\ alerts[k].Status = "Active"

C3_Witness ==
    /\ call = "reminder" /\ pc = "done"
    /\ Len(alerts) = 1
    /\ alerts[1].Priority = "Low"
    /\ reminder_data.rows[1].Reminder_Type = "Appointment"

\* the three domains' alerts in the order generate_alerts collects them
Collected ==
    (IF health_data.isNone THEN << >> ELSE generate_health_alerts(health_data))
    \o (IF safety_data.isNone THEN << >> ELSE generate_safety_alerts(safety_data))
    \o (IF reminder_data.isNone THEN << >> ELSE generate_reminder_alerts(reminder_data))

At(t, list) == SelectSeq(list, LAMBDA a : a.Timestamp = t)

\* C4: the list generate_alerts returns is the collected alerts sorted by
\* descending timestamp, and alerts of equal timestamp keep the order in which
\* they were collected (health, safety, reminder; input order within each).
C4_SortedStable ==
    (call = "all" /\ pc = "done") =>
        /\ \A i \in 1..(Len(alerts) - 1) : alerts[i].Timestamp >= alerts[i + 1].Timestamp
        /\ Len(alerts) = Len(Collected)
        /\ \A t \in Timestamps : At(t, alerts) = At(t, Collected)

C4_Witness ==
    /\ call = "all" /\ pc = "done"
    /\ Len(alerts) = 3
    /\ alerts[1].Timestamp = 2 /\ alerts[1].Alert_Type = "Reminder"
    /\ alerts[2].Timestamp = 1 /\ alerts[2].Alert_Type = "Health"
    /\ alerts[3].Timestamp = 1 /\ alerts[3].Alert_Type = "Fall"

\* C5: a Health or Fall alert is Active when its event's caregiver-notified
\* flag is false and Notified when it is true.
C5_StatusFromNotified ==
    /\ (call = "health" /\ pc = "done") =>
          \A k \in 1..Len(alerts) :
              /\ k <= Len(TriggeredRows)
              /\ FlagFalse(TriggeredRows[k].Caregiver_Notified)
                    => alerts[k].Status = "Active"
              /\ FlagTrue(TriggeredRows[k].Caregiver_Notified)
                    => alerts[k].Status = "Notified"
    /\ (call = "safety" /\ pc = "done") =>
          \A k \in 1..Len(alerts) :
              /\ k <= Len(FallRows)
              /\ FlagFalse(FallRows[k].Caregiver_Notified)
                    => alerts[k].Status = "Active"
              /\ FlagTrue(FallRows[k].Caregiver_Notified)
                    => alerts[k].Status = "Notified"

C5_Witness ==
    /\ call = "safety" /\ pc = "done"
    /\ Len(alerts) = 1
    /\ safety_data.rows[1].Location = "Bathroom"
    /\ safety_data.rows[1].Impact_Force_Level = "Low"
    /\ safety_data.rows[1].Inactivity = 45
    /\ safety_data.rows[1].Caregiver_Notified = "True"
    /\ alerts[1].Priority = "Medium"
    /\ alerts[1].Status = "Notified"

\* the (device, timestamp) pairs of a list, with how often each occurs
Keys(list) == {<<x.Device_ID, x.Timestamp>> : x \in {list[i] : i \in 1..Len(list)}}
Times(key, list) ==
    Cardinality({i \in 1..Len(list) : <<list[i].Device_ID, list[i].Timestamp>> = key})
SameKeys(a, b) ==
    /\ Len(a) = Len(b)
    /\ \A key \in Keys(a) \cup Keys(b) : Times(key, a) = Times(key, b)

OfType(type) == SelectSeq(alerts, LAMBDA a : a.Alert_Type = type)

\* C6: generate_alerts returns exactly one alert for each qualifying event of
\* each domain it is given (health: alert triggered; safety: fall detected;
\* reminder: sent, unacknowledged, Medication or Appointment), with the event's
\* device and timestamp, and nothing else; a domain passed as None yields
\* nothing.
C6_OnePerQualifyingEvent ==
    (call = "all" /\ pc = "done") =>
        /\ SameKeys(OfType("Health"), TriggeredRows)
        /\ SameKeys(OfType("Fall"), FallRows)
        /\ SameKeys(OfType("Reminder"), MissedRows)
        /\ Len(alerts) = Len(TriggeredRows) + Len(FallRows) + Len(MissedRows)

\* C7: should_notify_caregiver is true for a High alert, for a Health alert
\* whose message names the heart rate and for a Fall alert whose message names
\* a High or Medium impact, false for everything else (every Reminder alert
\* included), and leaves the alert list as it was.
C7_ShouldNotify ==
    pc = "decided" =>
        LET a == decision.before[decision.index]
            expected ==
                \/ a.Priority = "High"
                \/ /\ a.Alert_Type = "Health"
                   /\ HasPieces(a.Message, <<"Abnormal heart rate: ">>)
                \/ /\ a.Alert_Type = "Fall"
                   /\ \/ HasPieces(a.Message, <<" with ", "High", " impact. ">>)
                      \/ HasPieces(a.Message, <<" with ", "Medium", " impact. ">>)
        IN  /\ decision.value = expected
            /\ a.Alert_Type = "Reminder" => decision.value = FALSE
            /\ alerts = decision.before

C7_Witness ==
    /\ pc = "decided"
    /\ alerts[decision.index].Alert_Type = "Fall"
    /\ alerts[decision.index].Priority = "Medium"
    /\ decision.value = TRUE

C7_WitnessMedication ==
    /\ pc = "decided"
    /\ alerts[decision.index].Alert_Type = "Reminder"
    /\ alerts[decision.index].Message[1] = "Medication"
    /\ decision.value = FALSE


----------------------------------------------------------------------------
(* Properties of the predictors *)

\* C8: predict on an instance that is not trained returns, for every input
\* row and in the input's order, that row with score 0 and level "Low", adds
\* no row with another score or level, and does not raise.
C8_UntrainedSentinel ==
    (ret.op = "predict" /\ ~predictor.trained) =>
        /\ ret.outcome = "returned"
        /\ Len(ret.rows) >= Len(ret.input.rows)
        /\ \A i \in 1..Len(ret.input.rows) :
              ret.rows[i].Device_ID = ret.input.rows[i].Device_ID
        /\ \A i \in 1..Len(ret.rows) :
              ret.rows[i].Score = 0 /\ ret.rows[i].Level = "Low"

C8_Witness ==
    /\ ret.op = "predict"
    /\ predictor = FreshPredictor
    /\ Len(ret.input.rows) = 2
    /\ ret.rows = <<[Device_ID |-> "U1", Score |-> 0, Level |-> "Low"],
                    [Device_ID |-> "U2", Score |-> 0, Level |-> "Low"]>>

\* C9: an instance starts untrained; a train call that returns an accuracy
\* leaves it trained; and no call, train or predict, failing or not, makes a
\* trained instance untrained.
C9_TrainedIsTerminal ==
    /\ ~predictor.trained
    /\ [][/\ predictor.trained => predictor'.trained
          /\ (ret'.op = "train" /\ "accuracy" \in ret'.result.keys)
                => predictor'.trained]_vars

C9_Witness ==
    /\ predictor.trained
    /\ ret.op = "train"
    /\ ret.outcome = "returned"
    /\ "error" \in ret.result.keys

\* C10: train never raises: whatever goes wrong while it prepares the data or
\* fits, it returns a dictionary with an 'error' key.
C10_TrainNeverRaises ==
    ret.op = "train" =>
        /\ ret.outcome = "returned"
        /\ ret.result.keys \cap {"accuracy", "error"} # {}


\* C11: every dictionary train returns, on the success path and on every error
\* path (empty data and no sent reminders included), holds model_type and
\* feature_count next to accuracy or error.
C11_TrainResultShape ==
    (ret.op = "train" /\ ret.outcome = "returned") =>
        /\ {"model_type", "feature_count"} \subseteq ret.result.keys
        /\ ret.result.keys \cap {"accuracy", "error"} # {}


\* C12: when the try block of predict raises on a trained instance, predict
\* does not raise: it returns the input's rows, in order, each with score 0
\* and level "Low", and the caller's frame is as it was before the call.
C12_PredictionFailure ==
    (ret.op = "predict" /\ ret.path = "except") =>
        /\ predictor.trained
        /\ ret.outcome = "returned"
        /\ Len(ret.rows) = Len(ret.input.rows)
        /\ \A i \in 1..Len(ret.rows) :
              /\ ret.rows[i].Device_ID = ret.input.rows[i].Device_ID
              /\ ret.rows[i].Score = 0
              /\ ret.rows[i].Level = "Low"
        /\ ret.after = ret.input

C12_Witness ==
    /\ ret.op = "predict"
    /\ ret.path = "except"
    /\ predictor.trained
    /\ predictor.model = "fitted"
    /\ Len(ret.input.rows) = 2
    /\ ret.rows[2] = [Device_ID |-> "U2", Score |-> 0, Level |-> "Low"]

\* the level the bucketing rule gives a score (in tenths): Low up to 0.3
\* with 0 included, Medium up to the upper edge, High above it
LevelOf(score, upper) ==
    IF score <= 3 THEN "Low" ELSE IF score <= upper THEN "Medium" ELSE "High"

\* C13: every row a trained HealthRiskPredictor or
\* ReminderEffectivenessPredictor scores has the level Low for a score up to
\* 0.3 (0 included), Medium above 0.3 up to 0.7, High above 0.7.
C13_LevelBuckets ==
    (ret.op = "predict" /\ ret.path = "scored" /\ kind \in {"health", "reminder"}) =>
        \A i \in 1..Len(ret.rows) :
            ret.rows[i].Level = LevelOf(ret.rows[i].Score, 7)

\* C14: every row a trained FallRiskPredictor scores has the level Low for a
\* score up to 0.3 (0 included), Medium above 0.3 up to 0.6, High above 0.6.
C14_FallLevelBuckets ==
    (ret.op = "predict" /\ ret.path = "scored" /\ kind = "fall") =>
        \A i \in 1..Len(ret.rows) :
            ret.rows[i].Level = LevelOf(ret.rows[i].Score, 6)

\* C20: whenever a trained FallRiskPredictor scores a batch, the matrix given
\* to the model has exactly the trained feature columns in the trained order;
\* the trained columns the batch's own one-hot encoding lacks are the ones
\* filled with zero, and no column the training did not see is passed on.
C20_FeatureAlignment ==
    (ret.op = "predict" /\ kind = "fall" /\ ret.path = "scored") =>
        LET trained == predictor.feature_names_in_
            encoded == Range(FallDummies(ret.input.rows))
        IN  /\ ret.outcome = "returned"
            /\ ret.X.columns = trained
            /\ ret.X.zeros = Range(trained) \ encoded
            /\ Range(ret.X.columns) \cap (encoded \ Range(trained)) = {}

\* a model trained with two activities in one room scores a batch with one
\* activity in two rooms: one column is added as zero, one is dropped
C20_Witness ==
    /\ ret.op = "predict" /\ kind = "fall" /\ ret.path = "scored"
    /\ predictor.feature_names_in_ =
           <<"Hour", "DayOfWeek", "Movement Activity_Walking">>
    /\ FallDummies(ret.input.rows) = <<"Hour", "DayOfWeek", "Location_Kitchen">>
    /\ ret.X.columns = <<"Hour", "DayOfWeek", "Movement Activity_Walking">>
    /\ ret.X.zeros = {"Movement Activity_Walking"}
    /\ Len(ret.rows) = 2

\* C21: a predictor's train and predict leave the frame they are given as it
\* was: the same columns and the same values after the call as before it.
C21_InputUnchanged ==
    (ret.op \in {"train", "predict"} /\ ret.outcome = "returned") =>
        ret.after = ret.input

\* C26: in every state reachable by train and predict calls, a predictor with
\* trained = true holds a fitted model: a train call that fails after an
\* earlier success leaves the fitted model in place.
C26_TrainedHoldsFittedModel ==
    predictor.trained => predictor.model = "fitted"

\* C27: predict returns exactly the rows it was given, in their order, each
\* with a score and a level; an empty batch gives an empty result and no
\* device id that was not in the input appears.
C27_SameRows ==
    (ret.op = "predict" /\ ret.outcome = "returned") =>
        /\ Len(ret.rows) = Len(ret.input.rows)
        /\ \A i \in 1..Len(ret.rows) :
               ret.rows[i].Device_ID = ret.input.rows[i].Device_ID

----------------------------------------------------------------------------
(* FallRiskPredictor.preprocess_data: the Next_Day_Fall target *)

MaxEvents == 3

\* timestamps in hours; 24 apart is the edge of the window, 30 is past it
Hours == {0, 2, 24, 30}
Timedelta == 24

\* a row of the safety frame: the columns the labelling reads.  The position
\* of a row in events is its index label.
SafetyEvents ==
    [Device_ID : Devices, Timestamp : Hours, Fall_Detected : MappedCells]

\* (device, timestamp) of row a sorts before that of row b
RowBefore(a, b) ==
    \/ (a.Device_ID = "U1" /\ b.Device_ID = "U2")
    \/ (a.Device_ID = b.Device_ID /\ a.Timestamp < b.Timestamp)

RECURSIVE InsertRow(_, _, _)
InsertRow(rows, order, i) ==
    IF order = << >> THEN <<i>>
    ELSE IF RowBefore(rows[i], rows[Head(order)]) THEN <<i>> \o order
    ELSE <<Head(order)>> \o InsertRow(rows, Tail(order), i)

\* safety_data.sort_values(['Device-ID/User-ID', 'Timestamp']): the index
\* labels in sorted order, rows with equal keys in their given order
RECURSIVE SortValues(_, _)
SortValues(rows, n) ==
    IF n = 0 THEN << >>
    ELSE InsertRow(rows, SortValues(rows, n - 1), n)

\* device_data = safety_data[safety_data['Device-ID/User-ID'] == device]
DeviceData(rows, device) == {j \in 1..Len(rows) : rows[j].Device_ID = device}

\* mutant: the window is closed at the event's own timestamp
NextDay_Closed(rows, i) ==
    {j \in DeviceData(rows, rows[i].Device_ID) :
        /\ rows[j].Timestamp >= rows[i].Timestamp
        /\ rows[j].Timestamp <= rows[i].Timestamp + Timedelta}

\* next_day: the device's rows later than the row and at most a day later
NextDay(rows, i) ==
    {j \in DeviceData(rows, rows[i].Device_ID) :
        /\ rows[j].Timestamp > rows[i].Timestamp
        /\ rows[j].Timestamp <= rows[i].Timestamp + Timedelta}

\* Series.any(): NaN is skipped
AnyFall(rows, J) == \E j \in J : rows[j].Fall_Detected = "True"

\* the Next_Day_Fall column, by index label
Next_Day_Fall(rows) ==
    [i \in 1..Len(rows) |->
        Cardinality(NextDay(rows, i)) > 0 /\ AnyFall(rows, NextDay(rows, i))]

Fall_labels(rows) ==
    IF Len(rows) = 0 THEN [done |-> TRUE, isNone |-> TRUE, order |-> << >>,
                           Next_Day_Fall |-> << >>]
    ELSE [done |-> TRUE, isNone |-> FALSE, order |-> SortValues(rows, Len(rows)),
          Next_Day_Fall |-> Next_Day_Fall(rows)]

InitLabels ==
    /\ RulesIdle
    /\ PredictorsIdle
    /\ absent = {}
    /\ page = NoPage
    /\ \E n \in 0..MaxEvents : events \in [1..n -> SafetyEvents]
    /\ labelled = NotLabelled
    /\ NormalizerIdle
    /\ MergerIdle
    /\ AppIdle

PreprocessFall ==
    /\ ~labelled.done
    /\ labelled' = Fall_labels(events)
    /\ UNCHANGED <<events, normVars, mergeVars, appVars, absent, page, ruleVars, predVars>>

NextLabels == PreprocessFall

SpecLabels == InitLabels /\ [][NextLabels]_vars

\* C15: Next_Day_Fall of an event is true exactly when some event of the same
\* device with a detected fall lies later than it and at most 24 hours later;
\* the event's own fall, falls at the same timestamp, falls more than 24 hours
\* later and other devices' falls do not count, and the row order does not
\* matter.  Events at 0 (no fall), 2 (fall) and 30 (no fall) of one device are
\* labelled true, false, false.
C15_NextDayFall ==
    (labelled.done /\ ~labelled.isNone) =>
        /\ DOMAIN labelled.Next_Day_Fall = 1..Len(events)
        /\ \A i \in 1..Len(events) :
              labelled.Next_Day_Fall[i] =
                 \E j \in 1..Len(events) :
                    /\ events[j].Device_ID = events[i].Device_ID
                    /\ events[j].Fall_Detected = "True"
                    /\ events[i].Timestamp < events[j].Timestamp
                    /\ events[j].Timestamp <= events[i].Timestamp + 24
        /\ \A i, j \in 1..Len(events) :
              \A k \in 1..Len(events) :
                 (events[i].Device_ID = "U1" /\ events[i].Timestamp = 0
                    /\ events[i].Fall_Detected = "False"
                  /\ events[j].Device_ID = "U1" /\ events[j].Timestamp = 2
                    /\ events[j].Fall_Detected = "True"
                  /\ events[k].Device_ID = "U1" /\ events[k].Timestamp = 30
                    /\ events[k].Fall_Detected = "False"
                  /\ Len(events) = 3)
                 => /\ labelled.Next_Day_Fall[i]
                    /\ ~labelled.Next_Day_Fall[j]
                    /\ ~labelled.Next_Day_Fall[k]

C15_Witness ==
    /\ labelled.done
    /\ events = <<[Device_ID |-> "U1", Timestamp |-> 30, Fall_Detected |-> "False"],
                  [Device_ID |-> "U1", Timestamp |-> 0, Fall_Detected |-> "False"],
                  [Device_ID |-> "U1", Timestamp |-> 2, Fall_Detected |-> "True"]>>
    /\ labelled.Next_Day_Fall = <<FALSE, TRUE, FALSE>>
    /\ labelled.order = <<2, 3, 1>>

----------------------------------------------------------------------------
(* data_processor: process_health_data, process_safety_data,
   process_reminder_data *)

MaxPasses == 2

\* pd.to_datetime on a timestamp cell: text is parsed, a datetime is kept
to_datetime(cell) == [type |-> "datetime", day |-> cell.day]

\* pd.to_datetime(..., format='%H:%M:%S').dt.time on a scheduled-time cell:
\* text is parsed; a datetime.time is parsed from its str(), the same text
to_time(cell) == [type |-> "time", text |-> cell.text]

\* Series.map({'Yes': True, 'No': False}): a value that is no key gives NaN
MapYesNo(cell) ==
    IF cell = "Yes" THEN "True" ELSE IF cell = "No" THEN "False" ELSE "NaN"

\* df['Blood Pressure'].str.extract(r'(\d+)/(\d+)') and astype(int)
ExtractBP(bp) ==
    IF bp = "150/95" THEN <<150, 95>> ELSE <<85, 50>>

\* fillna(0) on the inactivity column
FillNa(cell) == IF cell.isNaN THEN [isNaN |-> FALSE, v |-> 0] ELSE cell

process_health_row(row) ==
    [row EXCEPT !.Timestamp = to_datetime(@),
                !.Date = row.Timestamp.day,
                !.Systolic = ExtractBP(row.Blood_Pressure)[1],
                !.Diastolic = ExtractBP(row.Blood_Pressure)[2],
                !.SpO2 = row.Oxygen_Saturation]

process_health_data(df) ==
    [df EXCEPT !.cols = @ \cup {"Date", "Systolic", "Diastolic", "SpO2"},
               !.rows = [i \in 1..Len(@) |-> process_health_row(@[i])]]

process_safety_row(row) ==
    [row EXCEPT !.Timestamp = to_datetime(@),
                !.Date = row.Timestamp.day,
                !.Inactivity = FillNa(@),
                !.Fall_Detected = MapYesNo(@),
                !.Alert_Triggered = MapYesNo(@),
                !.Caregiver_Notified = MapYesNo(@)]

process_safety_data(df) ==
    [df EXCEPT !.cols = @ \cup {"Date"},
               !.rows = [i \in 1..Len(@) |-> process_safety_row(@[i])]]

process_reminder_row(row) ==
    [row EXCEPT !.Timestamp = to_datetime(@),
                !.Date = row.Timestamp.day,
                !.Scheduled_Time = to_time(@),
                !.Reminder_Sent = MapYesNo(@),
                !.Acknowledged = MapYesNo(@)]

process_reminder_data(df) ==
    [df EXCEPT !.cols = @ \cup {"Date"},
               !.rows = [i \in 1..Len(@) |-> process_reminder_row(@[i])]]

(* the batches: as read from the CSV files, or as the store returns them *)

TimestampCells(repr) ==
    [type : {IF repr = "text" THEN "str" ELSE "datetime"}, day : Timestamps]

ScheduledCell(repr) ==
    [type |-> IF repr = "text" THEN "str" ELSE "time", text |-> "08:00:00"]

InactivityCells ==
    {[isNaN |-> TRUE, v |-> 0], [isNaN |-> FALSE, v |-> 45]}

RawHealthRows(repr) ==
    {[Device_ID |-> d, Timestamp |-> t, Blood_Pressure |-> BloodPressureOf(d),
      Oxygen_Saturation |-> SpO2Of(d), Alert_Triggered |-> a,
      Date |-> 0, Systolic |-> 0, Diastolic |-> 0, SpO2 |-> 0] :
        d \in Devices, t \in TimestampCells(repr), a \in FlagCells(repr)}

RawSafetyRows(repr) ==
    {[Device_ID |-> d, Timestamp |-> t, Inactivity |-> n, Fall_Detected |-> f,
      Alert_Triggered |-> a, Caregiver_Notified |-> c, Date |-> 0] :
        d \in Devices, t \in TimestampCells(repr), n \in InactivityCells,
        f \in FlagCells(repr), a \in FlagCells(repr), c \in FlagCells(repr)}

RawReminderRows(repr) ==
    {[Device_ID |-> d, Timestamp |-> t, Scheduled_Time |-> ScheduledCell(repr),
      Reminder_Sent |-> s, Acknowledged |-> a, Date |-> 0] :
        d \in Devices, t \in TimestampCells(repr),
        s \in FlagCells(repr), a \in FlagCells(repr)}

RawCols(domain) ==
    CASE domain = "health" ->
            {"Device-ID/User-ID", "Timestamp", "Blood Pressure",
             "Oxygen Saturation (SpO2%)", "Alert Triggered (Yes/No)"}
      [] domain = "safety" ->
            {"Device-ID/User-ID", "Timestamp",
             "Post-Fall Inactivity Duration (Seconds)", "Fall Detected (Yes/No)",
             "Alert Triggered (Yes/No)", "Caregiver Notified (Yes/No)"}
      [] domain = "reminder" ->
            {"Device-ID/User-ID", "Timestamp", "Scheduled Time",
             "Reminder Sent (Yes/No)", "Acknowledged (Yes/No)"}

RawRows(domain, repr) ==
    CASE domain = "health" -> RawHealthRows(repr)
      [] domain = "safety" -> RawSafetyRows(repr)
      [] domain = "reminder" -> RawReminderRows(repr)

InitNormalizer ==
    /\ RulesIdle
    /\ PredictorsIdle
    /\ absent = {}
    /\ page = NoPage
    /\ LabelsIdle
    /\ MergerIdle
    /\ AppIdle
    /\ \E domain \in {"health", "safety", "reminder"}, repr \in Reprs :
       \E rows \in SeqsUpTo(RawRows(domain, repr), MaxFull) :
          batch = [domain |-> domain, cols |-> RawCols(domain), rows |-> rows]
    /\ normal = NotNormalized

\* the function returns the frame it was given, changed in place
Processed(df) ==
    /\ normal.passes < MaxPasses
    /\ batch' = df
    /\ normal' = [passes |-> normal.passes + 1, outcome |-> "returned",
                  first |-> IF normal.passes = 0 THEN df ELSE normal.first]
    /\ UNCHANGED <<labelVars, mergeVars, appVars, absent, page, ruleVars, predVars>>

ProcessHealthData ==
    /\ batch.domain = "health"
    /\ Processed(process_health_data(batch))

ProcessSafetyData ==
    /\ batch.domain = "safety"
    /\ Processed(process_safety_data(batch))

ProcessReminderData ==
    /\ batch.domain = "reminder"
    /\ Processed(process_reminder_data(batch))

NextNormalizer ==
    \/ ProcessHealthData
    \/ ProcessSafetyData
    \/ ProcessReminderData

SpecNormalizer == InitNormalizer /\ [][NextNormalizer]_vars

\* C16: processing a batch that was processed already succeeds and leaves
\* every field as the first pass left it, the booleans made from Yes/No and
\* the parsed scheduled time included.
C16_Idempotent ==
    normal.passes >= 2 =>
        /\ normal.outcome = "returned"
        /\ batch = normal.first

----------------------------------------------------------------------------
(* data_processor.merge_data_for_analysis *)

\* the rows given: the key columns, the alert flag, and one more column of
\* the domain.  Date is Timestamp.dt.date.
HealthFeatures ==
    {[Device_ID |-> d, Date |-> t, Heart_Rate |-> HeartRateOf(d), Alert |-> a] :
        d \in Devices, t \in Timestamps, a \in FlagCells("bool")}

SafetyFeatures ==
    {[Device_ID |-> d, Date |-> t, Location |-> LocationOf(d), Alert |-> a] :
        d \in Devices, t \in Timestamps, a \in MappedCells}

ReminderFeatures_ ==
    {[Device_ID |-> d, Date |-> t, Reminder_Type |-> ReminderTypeOf(d)] :
        d \in Devices, t \in Timestamps}

\* the columns of a domain in a merged row that has no record of the domain
NullHealth == [isNull |-> TRUE, Heart_Rate |-> 0, Alert |-> "NaN"]
NullSafety == [isNull |-> TRUE, Location |-> "NaN", Alert |-> "NaN"]
NullReminder == [isNull |-> TRUE, Reminder_Type |-> "NaN"]

HealthPart(h) == [isNull |-> FALSE, Heart_Rate |-> h.Heart_Rate, Alert |-> h.Alert]
SafetyPart(r) == [isNull |-> FALSE, Location |-> r.Location, Alert |-> r.Alert]
ReminderPart(r) == [isNull |-> FALSE, Reminder_Type |-> r.Reminder_Type]

\* on=['Device-ID/User-ID', 'Date']
SameKey(a, b) == a.Device_ID = b.Device_ID /\ a.Date = b.Date

RECURSIVE Flatten(_)
Flatten(seqs) ==
    IF seqs = << >> THEN << >> ELSE Head(seqs) \o Flatten(Tail(seqs))

\* pd.merge(left, right, how='outer'): every pair of rows with the same key,
\* every left row without a partner, every right row without a partner.  A
\* side of a joined row is <<row>>, or << >> where the row has no partner.
OuterMerge(left, right) ==
    LET Partners(l) == SelectSeq(right, LAMBDA r : SameKey(l, r))
        FromLeft(l) ==
            IF Partners(l) = << >> THEN <<[l |-> <<l>>, r |-> << >>]>>
            ELSE [k \in 1..Len(Partners(l)) |->
                     [l |-> <<l>>, r |-> <<Partners(l)[k]>>]]
        Alone == SelectSeq(right,
                     LAMBDA r : \A i \in 1..Len(left) : ~SameKey(left[i], r))
    IN  Flatten([i \in 1..Len(left) |-> FromLeft(left[i])])
        \o [k \in 1..Len(Alone) |-> [l |-> << >>, r |-> <<Alone[k]>>]]

\* the key columns of a joined row come from the side that is there
KeyRow(j) == IF j.l # << >> THEN j.l[1] ELSE j.r[1]

HealthWithSafety(health_df, safety_df) ==
    LET joined == OuterMerge(health_df, safety_df)
    IN  [i \in 1..Len(joined) |->
            [Device_ID |-> KeyRow(joined[i]).Device_ID,
             Date      |-> KeyRow(joined[i]).Date,
             health    |-> IF joined[i].l # << >>
                              THEN HealthPart(joined[i].l[1]) ELSE NullHealth,
             safety    |-> IF joined[i].r # << >>
                              THEN SafetyPart(joined[i].r[1]) ELSE NullSafety]]

WithReminders(merged, reminder_df) ==
    LET joined == OuterMerge(merged, reminder_df)
    IN  [i \in 1..Len(joined) |->
            [Device_ID |-> KeyRow(joined[i]).Device_ID,
             Date      |-> KeyRow(joined[i]).Date,
             health    |-> IF joined[i].l # << >>
                              THEN joined[i].l[1].health ELSE NullHealth,
             safety    |-> IF joined[i].l # << >>
                              THEN joined[i].l[1].safety ELSE NullSafety,
             reminder  |-> IF joined[i].r # << >>
                              THEN ReminderPart(joined[i].r[1])
                              ELSE NullReminder]]

\* mutant: a missing flag counts as an alert
FillNaFalse_True(cell) == IF cell = "NaN" THEN "True" ELSE cell

\* Series.fillna(False)
FillNaFalse(cell) == IF cell = "NaN" THEN "False" ELSE cell

\* Series | Series, on booleans
Or(a, b) == IF a = "True" \/ b = "True" THEN "True" ELSE "False"

Composite(m) ==
    [Device_ID |-> m.Device_ID, Date |-> m.Date,
     health |-> m.health, safety |-> m.safety, reminder |-> m.reminder,
     Has_Health_Alert |-> FillNaFalse(m.health.Alert),
     Has_Safety_Alert |-> FillNaFalse(m.safety.Alert),
     Has_Any_Alert |-> Or(FillNaFalse(m.health.Alert), FillNaFalse(m.safety.Alert))]

RECURSIVE BagOfSeq(_)
BagOfSeq(rows) ==
    IF rows = << >> THEN EmptyBag
    ELSE SetToBag({Head(rows)}) (+) BagOfSeq(Tail(rows))

\* the rows of the returned frame, as a bag: their order is left open
merge_data_for_analysis(health_df, safety_df, reminder_df) ==
    LET merged == WithReminders(HealthWithSafety(health_df, safety_df), reminder_df)
    IN  BagOfSeq([i \in 1..Len(merged) |-> Composite(merged[i])])

InitMerger ==
    /\ RulesIdle
    /\ PredictorsIdle
    /\ absent = {}
    /\ page = NoPage
    /\ LabelsIdle
    /\ NormalizerIdle
    /\ AppIdle
    /\ \E h \in 0..MaxTotal : \E r \in 0..(MaxTotal - h) :
       \E n \in 0..(MaxTotal - h - r) :
       \E health_df \in [1..h -> HealthFeatures] :
       \E safety_df \in [1..r -> SafetyFeatures] :
       \E reminder_df \in [1..n -> ReminderFeatures_] :
          merge_in = [health_df |-> health_df, safety_df |-> safety_df,
                      reminder_df |-> reminder_df]
    /\ merged_df = NotMerged

MergeDataForAnalysis ==
    /\ ~merged_df.done
    /\ merged_df' = [done |-> TRUE,
                     rows |-> merge_data_for_analysis(merge_in.health_df,
                                 merge_in.safety_df, merge_in.reminder_df)]
    /\ UNCHANGED <<merge_in, labelVars, normVars, appVars, absent, page, ruleVars, predVars>>

NextMerger == MergeDataForAnalysis

SpecMerger == InitMerger /\ [][NextMerger]_vars

\* the (device, date) pairs of a frame
KeysOf(df) == {<<df[i].Device_ID, df[i].Date>> : i \in 1..Len(df)}

\* C17: every (device, date) pair with a record in one of the three inputs
\* has a row in the merged table; a merged row's columns of a domain without
\* a record for its pair are null; Has Health Alert and Has Safety Alert are
\* false where the domain's alert flag is absent; and Has Any Alert is the OR
\* of the two.
C17_MergedTable ==
    merged_df.done =>
        /\ \A key \in KeysOf(merge_in.health_df) \cup KeysOf(merge_in.safety_df)
                         \cup KeysOf(merge_in.reminder_df) :
              \E m \in BagToSet(merged_df.rows) : <<m.Device_ID, m.Date>> = key
        /\ \A m \in BagToSet(merged_df.rows) :
              /\ <<m.Device_ID, m.Date>> \notin KeysOf(merge_in.health_df)
                    => m.health = NullHealth
              /\ <<m.Device_ID, m.Date>> \notin KeysOf(merge_in.safety_df)
                    => m.safety = NullSafety
              /\ <<m.Device_ID, m.Date>> \notin KeysOf(merge_in.reminder_df)
                    => m.reminder = NullReminder
              /\ m.health.Alert = "NaN" => m.Has_Health_Alert = "False"
              /\ m.safety.Alert = "NaN" => m.Has_Safety_Alert = "False"
              /\ m.Has_Any_Alert = "True" <=>
                    (m.Has_Health_Alert = "True" \/ m.Has_Safety_Alert = "True")
              /\ {m.Has_Health_Alert, m.Has_Safety_Alert, m.Has_Any_Alert}
                    \subseteq {"True", "False"}

C17_Witness ==
    /\ merged_df.done
    /\ Len(merge_in.health_df) = 1 /\ merge_in.health_df[1].Alert = "True"
    /\ Len(merge_in.safety_df) = 1 /\ merge_in.safety_df[1].Alert = "NaN"
    /\ Len(merge_in.reminder_df) = 1
    /\ ~SameKey(merge_in.health_df[1], merge_in.safety_df[1])
    /\ SameKey(merge_in.safety_df[1], merge_in.reminder_df[1])
    /\ BagCardinality(merged_df.rows) = 2
    /\ \E m \in BagToSet(merged_df.rows) :
          /\ m.health = NullHealth /\ ~m.safety.isNull /\ ~m.reminder.isNull
          /\ m.Has_Any_Alert = "False"
    /\ \E m \in BagToSet(merged_df.rows) :
          /\ ~m.health.isNull /\ m.safety = NullSafety /\ m.reminder = NullReminder
          /\ m.Has_Any_Alert = "True"

----------------------------------------------------------------------------
(* app.py: load_data and the 'Mark as Resolved' button of main_dashboard,
   over database.save_alert and database.update_alert_status *)

MaxRecords == 2
MaxAlertRows == 4
MaxLoads == 2

\* the health records of the store, their flags spelled as the store returns
\* them ("bool") or as generate_health_alerts tests them ("text")
StoredHealth(repr) ==
    {HealthRow(d, IF d = "U1" THEN 1 ELSE 2,
               YesCell(repr), NoCell(repr), NoCell(repr), NoCell(repr),
               trig, cn) :
        d \in Devices, trig \in FlagCells(repr), cn \in FlagCells(repr)}

\* database.get_health_data, then process_health_data, which leaves the
\* columns the rule engine reads as they are
get_health_data == DataFrame(store.health)

\* the safety records of the store, high-impact events with their flags
StoredSafety(repr) ==
    {SafetyRow(d, 1, fall, "High", 45, cn) :
        d \in Devices,
        fall \in FlagCells(repr), cn \in FlagCells(repr)}

\* database.get_safety_data, then process_safety_data, which maps the flag
\* columns with {'Yes': True, 'No': False}
get_safety_data ==
    DataFrame([i \in 1..Len(store.safety) |->
                  [store.safety[i] EXCEPT
                      !.Fall_Detected = MapYesNo(@),
                      !.Caregiver_Notified = MapYesNo(@)]])

\* the store holds no reminder record
get_reminder_data == DataFrame(<< >>)

\* mutant: a refresh saves only the alerts the table does not hold yet
save_alerts_Dedup(table, list) ==
    table \o SelectSeq(list, LAMBDA a : \A i \in 1..Len(table) : table[i] # a)

\* save_alert, for each alert of the list: one new row each, ids in sequence
save_alerts(table, list) == table \o list

\* update_alert_status(alert_id, new_status): the row with that id, if any
update_alert_status(table, alert_id, new_status) ==
    IF alert_id \in 1..Len(table)
        THEN [success |-> TRUE,
              table |-> [table EXCEPT ![alert_id].Status = new_status]]
        ELSE [success |-> FALSE, table |-> table]

\* filtered_health['Device-ID/User-ID'].unique()
FilteredDevices ==
    IF session.selected_device = "All"
        THEN {store.health[i].Device_ID : i \in 1..Len(store.health)}
        ELSE {session.selected_device}

\* alerts_to_show: the positions in the session list of the alerts displayed
RECURSIVE Positions(_, _, _)
Positions(list, n, devices) ==
    IF n = 0 THEN << >>
    ELSE Positions(list, n - 1, devices)
         \o (IF list[n].Device_ID \in devices THEN <<n>> ELSE << >>)

alerts_to_show == Positions(session.alerts, Len(session.alerts), FilteredDevices)

InitApp ==
    /\ RulesIdle
    /\ PredictorsIdle
    /\ absent = {}
    /\ page = NoPage
    /\ LabelsIdle
    /\ NormalizerIdle
    /\ MergerIdle
    /\ \E repr \in Reprs : \E n \in 0..MaxRecords : \E m \in 0..(MaxRecords - n) :
       \E health \in [1..n -> StoredHealth(repr)] :
       \E safety \in [1..m -> StoredSafety(repr)] :
          store = [health |-> health, safety |-> safety, alerts |-> << >>]
    /\ session = NoSession

\* load_data; raisedAt tells where the store raised: 0 in setup_database or
\* in one of the three reads, j in the j-th save_alert, Len(generated) + 1
\* nowhere.  The session is assigned before the first save_alert, last_update
\* after the last.
load_data(sess, db, raisedAt) ==
    LET generated == generate_alerts(get_health_data, get_safety_data,
                                     get_reminder_data)
        returned  == raisedAt = Len(generated) + 1
        saved     == SubSeq(generated, 1, raisedAt - 1)
    IN  IF raisedAt = 0
            THEN [session |-> sess, store |-> db, success |-> FALSE]
        ELSE [session |-> [sess EXCEPT
                              !.loaded = TRUE,
                              !.alerts = generated,
                              !.last_update = IF returned THEN @ + 1 ELSE @],
              store   |-> [db EXCEPT !.alerts = save_alerts(@, saved)],
              success |-> returned]

\* 'Refresh Data', and the first load
LoadData ==
    LET k == Len(generate_alerts(get_health_data, get_safety_data,
                                 get_reminder_data))
    IN  /\ Len(store.alerts) + k <= MaxAlertRows
        /\ session.last_update < MaxLoads
        /\ \E raisedAt \in 0..(k + 1) :
              LET r == load_data(session, store, raisedAt)
              IN  /\ session' = [r.session EXCEPT
                                    !.last = [action |-> "refresh",
                                              success |-> r.success,
                                              idx |-> 0, notified |-> << >>]]
                  /\ store' = r.store
        /\ UNCHANGED <<ruleVars, predVars, labelVars, normVars, mergeVars, absent, page>>

\* the device selectbox of the sidebar
SelectDevice ==
    /\ session.loaded
    /\ \E d \in {"All"} \cup {store.health[i].Device_ID : i \in 1..Len(store.health)} :
          session' = [session EXCEPT
                         !.selected_device = d,
                         !.last = [action |-> "select", success |-> TRUE,
                                   idx |-> 0, notified |-> << >>]]
    /\ UNCHANGED <<store, ruleVars, predVars, labelVars, normVars, mergeVars, absent, page>>

\* mutant: the caregiver is notified whatever the store answered
Notified_Always(success, alert) == <<alert>>

\* if success: alert_system.notify_caregiver(alert)
Notified(success, alert) == IF success THEN <<alert>> ELSE << >>

\* 'Mark as Resolved' on the alert selected in the displayed list; the alerts
\* carry no 'id', so alert_id is selected_alert_idx + 1, and the session list
\* is indexed with the position in the displayed list
MarkAsResolved ==
    /\ session.loaded
    /\ Len(session.alerts) > 0
    /\ Len(alerts_to_show) > 0
    /\ \E selected_alert_idx \in 0..(Len(alerts_to_show) - 1) :
          LET alert_id == selected_alert_idx + 1
              updated == update_alert_status(store.alerts, alert_id, "Resolved")
              alerts1 == [session.alerts EXCEPT
                             ![selected_alert_idx + 1].Status = "Resolved"]
          IN  /\ store' = [store EXCEPT !.alerts = updated.table]
              /\ session' = [session EXCEPT
                    !.alerts = alerts1,
                    !.last = [action |-> "resolve",
                              success |-> updated.success,
                              idx |-> selected_alert_idx,
                              notified |-> Notified(updated.success,
                                              alerts1[selected_alert_idx + 1])]]
    /\ UNCHANGED <<ruleVars, predVars, labelVars, normVars, mergeVars, absent, page>>

NextApp ==
    \/ LoadData
    \/ SelectDevice
    \/ MarkAsResolved

SpecApp == InitApp /\ [][NextApp]_vars

Rank(status) ==
    CASE status = "Active" -> 1
      [] status = "Notified" -> 2
      [] status = "Resolved" -> 3

SameAlert(a, b) ==
    /\ a.Device_ID = b.Device_ID
    /\ a.Alert_Type = b.Alert_Type
    /\ a.Timestamp = b.Timestamp
    /\ a.Message = b.Message

C22_NotifyOnlyOnResolve ==
    session.last.notified # << >> =>
        /\ session.last.action = "resolve"
        /\ session.last.success
        /\ session.last.notified = <<session.alerts[session.last.idx + 1]>>

\* a click whose update succeeded has notified the caregiver of a Resolved
\* alert, after an earlier refresh that notified nobody
C22_Witness ==
    /\ session.last.action = "resolve" /\ session.last.success
    /\ Len(session.last.notified) = 1
    /\ session.last.notified[1].Status = "Resolved"
    /\ session.last_update >= 1

\* the alerts the rule engine yields from the source data of the store
CurrentAlerts ==
    generate_alerts(get_health_data, get_safety_data, get_reminder_data)

\* C23: every load_data call that succeeds appends the k alerts the source
\* data yields to the alerts table as k new rows, whether or not the table
\* holds them already, and leaves the rows of the table as they were; so n
\* successful calls have stored at least n * k rows, and exactly n * k when no
\* call in between failed.
C23_RefreshAppends ==
    /\ [](Len(store.alerts) >= session.last_update * Len(CurrentAlerts))
    /\ [][session'.last_update = session.last_update + 1 =>
            /\ session'.alerts = CurrentAlerts
            /\ store'.alerts = store.alerts \o CurrentAlerts
            /\ store'.health = store.health]_vars

\* two refreshes over two alert-triggered records: four rows, the two alerts
\* twice
C23_Witness ==
    /\ session.last_update = 2
    /\ Len(CurrentAlerts) = 2
    /\ store.alerts = CurrentAlerts \o CurrentAlerts

IsSet(cell) == cell \in {"True", "Yes"}

AlertsOfType(type) == SelectSeq(session.alerts, LAMBDA a : a.Alert_Type = type)

\* the alerts of a type stand one to one for the records, with the status
\* Active exactly for the records whose caregiver flag is not set
Covers(type, records) ==
    /\ SameKeys(AlertsOfType(type), records)
    /\ \A i \in 1..Len(records) :
          \E j \in 1..Len(session.alerts) :
             /\ session.alerts[j].Alert_Type = type
             /\ session.alerts[j].Device_ID = records[i].Device_ID
             /\ session.alerts[j].Timestamp = records[i].Timestamp
             /\ (session.alerts[j].Status = "Active")
                   = ~IsSet(records[i].Caregiver_Notified)

\* C28: after a successful load_data the session alert list holds one Health
\* alert for every stored health record whose alert_triggered is set and one
\* Fall alert for every stored safety record whose fall_detected is set, with
\* the status Active exactly when the record's caregiver_notified is not set.
C28_PipelineComplete ==
    (session.last.action = "refresh" /\ session.last.success) =>
        /\ Covers("Health",
                  SelectSeq(store.health, LAMBDA r : IsSet(r.Alert_Triggered)))
        /\ Covers("Fall",
                  SelectSeq(store.safety, LAMBDA r : IsSet(r.Fall_Detected)))

----------------------------------------------------------------------------
(* alert_system.generate_alerts on a health frame that lacks columns *)

\* the columns generate_health_alerts reads for one selected row: row[...] on
\* a column the frame lacks raises KeyError
HealthColumnsRead(row) ==
    {"Device-ID/User-ID", "Timestamp",
     "Heart Rate Below/Above Threshold (Yes/No)",
     "Blood Pressure Below/Above Threshold (Yes/No)",
     "Glucose Levels Below/Above Threshold (Yes/No)",
     "SpO2 Below Threshold (Yes/No)", "Caregiver Notified (Yes/No)"}
    \cup (IF PyEq(row.HR_Threshold, "Yes") THEN {"Heart Rate"} ELSE {})
    \cup (IF PyEq(row.BP_Threshold, "Yes") THEN {"Blood Pressure"} ELSE {})
    \cup (IF PyEq(row.Glucose_Threshold, "Yes") THEN {"Glucose Levels"} ELSE {})
    \cup (IF PyEq(row.SpO2_Threshold, "Yes")
             THEN {"Oxygen Saturation (SpO2%)"} ELSE {})

\* generate_health_alerts raises: the column it selects on is missing, or a
\* column it reads for a selected row is
HealthKeyError(df, lacking) ==
    /\ ~df.isNone
    /\ \/ "Alert Triggered (Yes/No)" \in lacking
       \/ \E i \in 1..Len(HealthAlertRecords(df.rows)) :
             HealthColumnsRead(HealthAlertRecords(df.rows)[i]) \cap lacking # {}

\* generate_alerts has no try block: an exception of generate_health_alerts
\* leaves it before the other domains are looked at
generate_alerts_or_raise(health, safety, reminder, lacking) ==
    IF HealthKeyError(health, lacking)
        THEN [outcome |-> "raised", alerts |-> << >>]
        ELSE [outcome |-> "done", alerts |-> generate_alerts(health, safety, reminder)]

AbsentChoices ==
    {{}, {"Heart Rate"}, {"Blood Pressure"}, {"Caregiver Notified (Yes/No)"}}

InitBatch ==
    /\ pc = "start"
    /\ alerts = << >>
    /\ decision = NoDecision
    /\ PredictorsIdle
    /\ DataIdle
    /\ call = "batch"
    /\ absent \in AbsentChoices
    /\ page = NoPage
    /\ \E repr \in Reprs : \E h \in Frames(HealthLite(repr), MaxTotal) :
       \E r \in Frames(SafetyLite, MaxTotal - Len(h.rows)) :
       \E n \in Frames(ReminderLite, MaxTotal - Len(h.rows) - Len(r.rows)) :
          /\ health_data = h
          /\ safety_data = r
          /\ reminder_data = n

CallGenerateAlertsOnBatch ==
    /\ call = "batch" /\ pc = "start"
    /\ LET r == generate_alerts_or_raise(health_data, safety_data,
                                         reminder_data, absent)
       IN  /\ alerts' = r.alerts
           /\ pc' = r.outcome
    /\ UNCHANGED <<call, health_data, safety_data, reminder_data, decision,
                   predVars, pipeVars>>

NextBatch == CallGenerateAlertsOnBatch

SpecBatch == InitBatch /\ [][NextBatch]_vars

\* C19: when an event of the health batch lacks a field the function reads,
\* generate_alerts still returns, with the alerts of the qualifying events of
\* the other domains.
C19_PerEventResilience ==
    (call = "batch" /\ pc # "start") =>
        /\ pc = "done"
        /\ SameKeys(OfType("Fall"), FallRows)
        /\ SameKeys(OfType("Reminder"), MissedRows)


----------------------------------------------------------------------------
(* pages/predictions.py: the models and prediction tables of the session *)

MaxTrainings == 2
MaxRefreshes == 3

\* train_models: three new instances are trained on the session's datasets
\* and stored in the session; whether an instance ends trained depends on the
\* data.  A train call that raises ends the click before anything is stored.
\* The prediction tables are not touched.
train_models(pg, trained, raised) ==
    IF raised THEN pg
    ELSE [pg EXCEPT
             !.trainings = @ + 1,
             !.models = [d \in Domains |->
                            [present |-> TRUE, instance |-> pg.trainings + 1,
                             trained |-> trained[d]]]]

\* generate_predictions: the table of a domain is replaced when the session
\* holds a trained model for it, and left as it is otherwise
generate_predictions(pg) ==
    [pg EXCEPT
        !.predictions = [d \in Domains |->
            IF pg.models[d].present /\ pg.models[d].trained
                THEN [present |-> TRUE, instance |-> pg.models[d].instance,
                      data |-> pg.data]
                ELSE @[d]]]

\* the rest of main, run after the button: once the models are there, a
\* table the session lacks is set to an empty frame, which no model made
\* (instance 0)
Render(pg) ==
    IF ~pg.models["health"].present THEN pg
    ELSE [pg EXCEPT
             !.predictions = [d \in Domains |->
                 IF @[d].present THEN @[d]
                 ELSE [present |-> TRUE, instance |-> 0, data |-> 0]]]

\* the page stops unless the dashboard has put the datasets in the session
InitPage ==
    /\ RulesIdle
    /\ PredictorsIdle
    /\ DataIdle
    /\ absent = {}
    /\ page = [NoPage EXCEPT !.data = 1]

\* 'Train Predictive Models'
TrainModels ==
    /\ page.trainings < MaxTrainings
    /\ \E trained \in [Domains -> BOOLEAN], raised \in BOOLEAN :
          page' = IF raised THEN page
                  ELSE Render(train_models(page, trained, raised))
    /\ UNCHANGED <<ruleVars, predVars, labelVars, normVars, mergeVars, appVars,
                   absent>>

\* 'Generate New Predictions'; without a health_model in the session the
\* button only shows an error
GeneratePredictions ==
    /\ page.models["health"].present
    /\ page' = Render(generate_predictions(page))
    /\ UNCHANGED <<ruleVars, predVars, labelVars, normVars, mergeVars, appVars,
                   absent>>

\* 'Refresh Data' on the dashboard: load_data assigns newly read datasets to
\* the session, and nothing else of what this page keeps
RefreshData ==
    /\ page.data < MaxRefreshes
    /\ page' = [page EXCEPT !.data = @ + 1]
    /\ UNCHANGED <<ruleVars, predVars, labelVars, normVars, mergeVars, appVars,
                   absent>>

NextPage ==
    \/ TrainModels
    \/ GeneratePredictions
    \/ RefreshData

SpecPage == InitPage /\ [][NextPage]_vars

\* C30: every prediction table held in the session that a model produced was
\* produced by the model the session currently holds for that domain, from
\* the dataset the session currently holds.
C30_PredictionsNotStale ==
    \A d \in Domains :
        (page.predictions[d].present /\ page.predictions[d].instance # 0) =>
            /\ page.predictions[d].instance = page.models[d].instance
            /\ page.predictions[d].data = page.data
====
